---- MODULE Spec2Model ----
(***************************************************************************)
(* Peer topology and chain synchronisation of a yadacoin node.             *)
(*                                                                         *)
(* Spec         the websocket sync sessions (yadawebsocketclient.py): the  *)
(*              handlers on_latest_block / on_blocks / process_next_block  *)
(*              of several sessions, interleaved at their await points,    *)
(*              sharing the chain head and peers.syncing.  asyncio runs a  *)
(*              handler without interruption from one await to the next,   *)
(*              so every action is one such stretch.                       *)
(* SpecGateway  ServiceProvider.calculate_seed_gateway (peer.py) applied   *)
(*              to bounded inputs.                                         *)
(* SpecConnect  Peer.ensure_peers_connected / Peer.connect (peer.py) with  *)
(*              one caller.                                                *)
(* SpecConcurrent  the same with several callers, each suspended in        *)
(*              nodeClient.connect while the others run.                   *)
(* SpecHandshake  YadaWebSocketClient.start, on_peers and on_disconnect of *)
(*              several sessions, each to a peer on some host.             *)
(* SpecGapFill  the sync sessions against remotes that answer every        *)
(*              get_blocks, with blocks that all pass consensus, under     *)
(*              weak fairness of every handler step.                       *)
(*                                                                         *)
(* A block is its index.  Consensus, the chain reader, the socket and the  *)
(* node client are outside the source tree: their answers are inputs of    *)
(* the actions (InsertAnswers, ImportAnswers, EmitAnswers), a transport    *)
(* that goes away while a handler runs shows as emit raising.              *)
(* YadaWebSocketClient.latest_peer_block is written at line 100 and read   *)
(* nowhere; it is not kept.  A handler's locals are dropped when it ends.  *)
(***************************************************************************)
EXTENDS Integers, Sequences, FiniteSets, TLC

\* ------------------------------------------------------------------ bounds
NumSessions == 2
MaxHead == 2
MaxBatch == 3
MaxGateways == 3
MaxHash == 7
MaxWindows == 4
MaxPeers == 2
NumCallers == 2
MaxHosts == 3

\* CHAIN.MAX_BLOCKS_PER_MESSAGE (yadacoin.chain, outside src/)
MAX_BLOCKS_PER_MESSAGE == 200

Sessions == 1..NumSessions
\* block indexes a peer may announce or deliver
Indexes == 0..(MaxHead + 1)
\* a consecutive run of n blocks from index a on
Run(a, n) == [i \in 1..n |-> a + i - 1]
\* the payload of a `blocks` event: a list of blocks, here their indexes. The
\* loop of on_blocks reads a batch up to its first out-of-sequence block only,
\* so a batch is a consecutive run followed by at most one arbitrary block.
Batches ==
    {Run(a, n) \o t : a \in Indexes, n \in 0..MaxBatch,
                      t \in {<<>>} \cup {<<x>> : x \in Indexes}}
    \cap UNION {[1..n -> Indexes] : n \in 0..MaxBatch}

\* Peer.epoch and Peer.ttl
epoch == 1602914018
ttl == 259200

\* rid of the i-th (0-based) configured seed gateway
Rid(i) == 100 + i
\* config.seed_gateways: an OrderedDict, here the rids in insertion order
GatewayLists == {[i \in 1..n |-> Rid(i - 1)] : n \in 0..MaxGateways}
\* int(sha256(username_signature).hexdigest(), 16)
Hashes == 0..MaxHash
\* time.time(): the first and the last second of the rotation windows since epoch
Times == {epoch + w * ttl + o : w \in 0..MaxWindows, o \in {0, ttl - 1}}

VARIABLES
    head,        \* config.BU.get_latest_block()['index']
    syncing,     \* config.peers.syncing
    pc,          \* per session: the await point its running handler is suspended at
    data,        \* per session: the running handler's argument (list of block indexes)
    my_index,    \* per session: the running handler's local my_index
    inserted,    \* per session: on_blocks' local `inserted`
    pos,         \* per session: position of the loop variable `block` in data
    failed,      \* per session: first block of the running batch consensus refused (0: none)
    step,        \* what the latest step put on the wire and how it left its handler
    seed_gateways,    \* config.seed_gateways
    outbound_ignore,  \* config.nodeClient.outbound_ignore['SeedGateway']
    sig_hash,         \* int(sha256(identity.username_signature).hexdigest(), 16)
    now,              \* time.time()
    selected,         \* outcome of the latest calculate_seed_gateway call
    before,           \* outcome of the call before it
    role,             \* the class of config.peer: Seed, SeedGateway, ...
    seeds,            \* config.seeds (keys)
    own_seed,         \* Peer.seed of a SeedGateway
    service_providers,  \* config.service_providers (keys)
    outbound_streams, \* nodeClient.outbound_streams[outbound class] (keys)
    outbound_pending, \* nodeClient.outbound_pending[outbound class] (keys)
    cpc,              \* per caller of ensure_peers_connected: where it is
    todo,             \* per caller: peers the loop of Peer.connect has not reached
    cur,              \* per caller: the peer nodeClient.connect is dialing
    batch,            \* per caller: how many peers the loop of its latest call set out to dial
    peer_host,        \* per session: YadaWebSocketClient.peer.host
    hs,               \* per session: where YadaWebSocketClient.start is
    connected,        \* per session: YadaWebSocketClient.connected
    got_peers,        \* per session: a `peers` event of its remote was handled
    outbound,         \* config.peers.outbound (its keys: hosts)
    height,           \* per session: index of the remote's latest block
    announced,        \* per session: the remote has answered get_latest_block
    asked             \* per session: start_index of its get_blocks not yet answered (0: none)

syncVars == <<head, syncing, pc, data, my_index, inserted, pos, failed, step>>
gatewayVars == <<seed_gateways, outbound_ignore, sig_hash, now, selected, before>>
connVars == <<role, seeds, own_seed, service_providers, outbound_streams,
              outbound_pending, cpc, todo, cur, batch>>
shakeVars == <<peer_host, hs, connected, got_peers, outbound>>
fillVars == <<height, announced, asked>>
vars == <<syncVars, gatewayVars, connVars, shakeVars, fillVars>>

\* await points inside YadaWebSocketClient.on_blocks (between lines 130 and 161)
BatchPCs == {"b_insert", "b_import", "b_gossip", "b_emit"}
\* await points inside YadaWebSocketClient.on_latest_block
LatestPCs == {"lb_insert", "lb_import", "lb_gossip", "lb_emit"}
\* await points inside process_next_block (consensus insert + import)
ConsensusPCs == {"b_insert", "b_import", "lb_insert", "lb_import"}

\* ------------------------------------------------------------ collaborators
\* config.BU.get_latest_block()['index']
GetLatestBlockIndex == head

\* Consensus.import_block can answer True only for the block that extends the head
CanImport(idx) == idx = head + 1

\* the answers of the Consensus collaborator
InsertAnswers == {"ok", "rejected", "raise"}
ImportAnswers == {"true", "false", "raise"}

\* ------------------------------------------------------------ small helpers
GetBlocksFromCursor(s, mi) ==
    [type |-> "get_blocks", to |-> s,
     start_index |-> mi, end_index |-> mi + MAX_BLOCKS_PER_MESSAGE]

\* lines 110-111 and 148-149: the get_blocks request after cursor mi
GetBlocksRequest(s, mi) ==
    [type |-> "get_blocks", to |-> s,
     start_index |-> mi + 1, end_index |-> mi + 1 + MAX_BLOCKS_PER_MESSAGE]

\* peers.on_block_insert(block): the block goes to the sessions other than s
Gossip(s, idx) ==
    [type |-> "block", to |-> Sessions \ {s},
     start_index |-> idx, end_index |-> idx]

NoStep == [how |-> "none", sent |-> {}]

NeverSyncing == FALSE

\* ClientChatNamespace.on_blocks line 51 / on_latest_block line 101
AlreadySyncing == syncing

SyncingKeptOnError(exc) == exc

\* the value the try/finally of on_blocks leaves in peers.syncing; exc says
\* whether the run ends through the except clause
SyncingAfterRun(exc) == FALSE

\* client.emit returns, or raises when the transport fails
EmitAnswers == {"sent", "raise"}

ImportNotRaised(r) == r # "raise"

\* lines 106 and 136: `if await self.process_next_block(...)`, on the value
\* import_block returned
ProcessedOk(r) == r = "true"

\* process_next_block line 119: the answer of insert_consensus_block is not
\* looked at; only an exception leaves process_next_block here
InsertContinues(r) == r # "raise"

\* the handler of session s suspends at await point p
Suspend(s, p, sent) ==
    /\ pc' = [pc EXCEPT ![s] = p]
    /\ step' = [how |-> "running", sent |-> sent]

\* the handler of session s returns or raises: its locals are gone
EndRun(s, how, sent) ==
    /\ pc' = [pc EXCEPT ![s] = "idle"]
    /\ data' = [data EXCEPT ![s] = <<>>]
    /\ my_index' = [my_index EXCEPT ![s] = 0]
    /\ inserted' = [inserted EXCEPT ![s] = FALSE]
    /\ pos' = [pos EXCEPT ![s] = 1]
    /\ failed' = [failed EXCEPT ![s] = 0]
    /\ step' = [how |-> how, sent |-> sent]

\* ------------------------------------------------ on_latest_block (97-114)
\* From the delivery of latest_block to the handler's first await (line 119,
\* reached from line 106, or line 111), or to its end.
OnLatestBlock(s, idx) ==
    /\ pc[s] = "idle"
    /\ UNCHANGED <<head, syncing>>
    /\ LET my == GetLatestBlockIndex IN
       IF AlreadySyncing
         THEN EndRun(s, "ignored", {})
         ELSE IF idx = my + 1
           THEN /\ Suspend(s, "lb_insert", {})
                /\ data' = [data EXCEPT ![s] = <<idx>>]
                /\ UNCHANGED <<my_index, inserted, pos, failed>>
           ELSE IF idx > my + 1
             THEN \* line 110 has built the request from my_index
                  /\ Suspend(s, "lb_emit", {})
                  /\ my_index' = [my_index EXCEPT ![s] = my]
                  /\ UNCHANGED <<data, inserted, pos, failed>>
             ELSE EndRun(s, "ignored", {})

\* client.emit('get_blocks') of line 111 returns or raises: the handler ends
LbEmit(s, e) ==
    /\ pc[s] = "lb_emit"
    /\ UNCHANGED <<head, syncing>>
    /\ IF e = "raise"
         THEN EndRun(s, "raised", {})
         ELSE EndRun(s, "requested", {GetBlocksRequest(s, my_index[s])})

\* the block the loop variable `block` of on_blocks is bound to; the announced
\* block in on_latest_block
Block(s) == data[s][pos[s]]

\* process_next_block line 119, called from on_latest_block line 106
LbInsert(s, r) ==
    /\ pc[s] = "lb_insert"
    /\ UNCHANGED <<head, syncing>>
    /\ IF InsertContinues(r)
         THEN /\ Suspend(s, "lb_import", {})
              /\ UNCHANGED <<data, my_index, inserted, pos, failed>>
         ELSE EndRun(s, "raised", {})

\* process_next_block line 121, then on_latest_block lines 106-107
LbImport(s, r) ==
    /\ pc[s] = "lb_import"
    /\ r = "true" => CanImport(Block(s))
    /\ UNCHANGED syncing
    /\ head' = IF r = "true" THEN Block(s) ELSE head
    /\ IF r = "raise"
         THEN EndRun(s, "raised", {})
         ELSE IF ProcessedOk(r)
           THEN /\ Suspend(s, "lb_gossip", {})
                /\ UNCHANGED <<data, my_index, inserted, pos, failed>>
           ELSE EndRun(s, "failed", {})

\* peers.on_block_insert(data) line 107 returns or raises
LbGossip(s, ok) ==
    /\ pc[s] = "lb_gossip"
    /\ UNCHANGED <<head, syncing>>
    /\ IF ok
         THEN EndRun(s, "imported", {Gossip(s, Block(s))})
         ELSE EndRun(s, "raised", {})

\* ------------------------------------------------------ on_blocks (48-57, 125-161)
\* leaving the try block of on_blocks: through `except` (exc) or not, then `finally`
ExitBatch(s, exc, how, sent) ==
    /\ syncing' = SyncingAfterRun(exc)
    /\ EndRun(s, how, sent)

BatchAcceptedAnyStart(d) ==
    /\ ~AlreadySyncing
    /\ Len(d) # 0

BatchAcceptedUnguarded(d) ==
    /\ Len(d) # 0
    /\ d[1] = GetLatestBlockIndex + 1

\* ClientChatNamespace.on_blocks 51-55 and YadaWebSocketClient.on_blocks 127-129
BatchAccepted(d) ==
    /\ ~AlreadySyncing
    /\ Len(d) # 0
    /\ d[1] = GetLatestBlockIndex + 1

\* From the delivery of `blocks` to the first await (line 136 -> 119) ...
OnBlocks(s, d) ==
    /\ pc[s] = "idle"
    /\ BatchAccepted(d)
    /\ UNCHANGED head
    /\ syncing' = TRUE
    /\ Suspend(s, "b_insert", {})
    /\ data' = [data EXCEPT ![s] = d]
    /\ my_index' = [my_index EXCEPT ![s] = GetLatestBlockIndex]
    /\ UNCHANGED <<inserted, pos, failed>>

\* ... or to the return that discards the batch (lines 53, 55, 129)
OnBlocksDiscarded(s) ==
    /\ pc[s] = "idle"
    /\ ~(\A d \in Batches : BatchAccepted(d))
    /\ UNCHANGED <<head, syncing>>
    /\ EndRun(s, "discarded", {})

\* process_next_block line 119, called from on_blocks line 136
BInsert(s, r) ==
    /\ pc[s] = "b_insert"
    /\ UNCHANGED head
    /\ IF InsertContinues(r)
         THEN /\ Suspend(s, "b_import", {})
              /\ failed' = [failed EXCEPT ![s] =
                              IF r = "rejected" /\ @ = 0 THEN Block(s) ELSE @]
              /\ UNCHANGED <<syncing, data, my_index, inserted, pos>>
         ELSE ExitBatch(s, TRUE, "batch_raised", {})

\* after a successful import at position p: does the for loop hand the next
\* block to process_next_block (lines 133-136), or end / break (141-143)?
LoopContinues(d, p, mi) == p < Len(d) /\ d[p + 1] = mi + 1

\* process_next_block line 121, then on_blocks lines 136-146 up to the next await
BImport(s, r) ==
    /\ pc[s] = "b_import"
    /\ r = "true" => CanImport(Block(s))
    /\ head' = IF r = "true" THEN Block(s) ELSE head
    /\ IF r = "raise"
         THEN ExitBatch(s, TRUE, "batch_raised", {})
         ELSE IF ProcessedOk(r)
           THEN /\ inserted' = [inserted EXCEPT ![s] = TRUE]
                /\ my_index' = [my_index EXCEPT ![s] = Block(s)]
                /\ pos' = [pos EXCEPT ![s] = IF @ < Len(data[s]) THEN @ + 1 ELSE @]
                /\ Suspend(s, IF LoopContinues(data[s], pos[s], Block(s))
                                THEN "b_insert" ELSE "b_gossip", {})
                /\ UNCHANGED <<syncing, data, failed>>
           ELSE IF inserted[s]
             THEN /\ Suspend(s, "b_gossip", {})
                  /\ failed' = [failed EXCEPT ![s] = IF @ = 0 THEN Block(s) ELSE @]
                  /\ UNCHANGED <<syncing, data, my_index, inserted, pos>>
             ELSE ExitBatch(s, FALSE, "batch_aborted", {})

\* the block on_blocks line 146 passes to peers.on_block_insert
GossipedBlock(s) == Block(s)

\* peers.on_block_insert(block) line 146 returns or raises
BGossip(s, ok) ==
    /\ pc[s] = "b_gossip"
    /\ UNCHANGED head
    /\ IF ok
         THEN /\ Suspend(s, "b_emit", {Gossip(s, GossipedBlock(s))})
              /\ UNCHANGED <<syncing, data, my_index, inserted, pos, failed>>
         ELSE ExitBatch(s, TRUE, "batch_raised", {})

\* client.emit('get_blocks') lines 148-149 returns or raises, then finally
BEmit(s, e) ==
    /\ pc[s] = "b_emit"
    /\ UNCHANGED head
    /\ IF e = "raise"
         THEN ExitBatch(s, TRUE, "batch_raised", {})
         ELSE ExitBatch(s, FALSE, "batch_done", {GetBlocksRequest(s, my_index[s])})

\* ------------------------------------- calculate_seed_gateway (182-202)
NoCall == [kind |-> "none", gw |-> 0, probes |-> 0, ign |-> {}]
Outcome(kind, gw, probes, ign) == [kind |-> kind, gw |-> gw, probes |-> probes, ign |-> ign]

\* line 187
SeedTime(t) == ((t - epoch) \div ttl) + 1

SeedSelectSum(h, t, n) == (h + SeedTime(t)) % n

\* line 188; the caller has checked that n is not 0
SeedSelect(h, t, n) == (h * SeedTime(t)) % n

LookupNeighbour(gws, ign, seed_select, probes) ==
    IF seed_select + 1 < Len(gws)
      THEN Outcome("gateway", gws[seed_select + 2], probes, ign)
      ELSE Outcome("IndexError", 0, probes, ign)

\* line 201: list(self.config.seed_gateways)[seed_select]
Lookup(gws, ign, seed_select, probes) ==
    IF seed_select < Len(gws)
      THEN Outcome("gateway", gws[seed_select + 1], probes, ign)
      ELSE Outcome("IndexError", 0, probes, ign)

\* line 196-198: where the probe goes on after seed_select += 1
Wrap(seed_select, first_number, n) ==
    IF seed_select >= n + 1 /\ first_number > 0 THEN 0 ELSE seed_select

\* lines 192-199: the while loop; probes counts the gateways looked at
RECURSIVE Probe(_, _, _, _, _, _)
Probe(gws, ign, seed_select, first_number, num_reset, probes) ==
    IF seed_select >= Len(gws)
      THEN \* username_signatures[seed_select] in the loop condition
           Outcome("IndexError", 0, probes, ign)
      ELSE IF gws[seed_select + 1] \notin ign
        THEN Lookup(gws, ign, seed_select, probes + 1)
        ELSE IF num_reset /\ seed_select + 1 >= first_number
          THEN Lookup(gws, ign, seed_select + 1, probes + 1)
          ELSE Probe(gws, ign, Wrap(seed_select + 1, first_number, Len(gws)),
                     first_number, num_reset, probes + 1)

CalculateSeedGateway(gws, ign, h, t) ==
    IF Len(gws) = 0
      THEN \* line 188: modulo by len(seed_gateways) = 0
           Outcome("ZeroDivisionError", 0, 0, ign)
      ELSE Probe(gws, ign, SeedSelect(h, t, Len(gws)), SeedSelect(h, t, Len(gws)),
                 FALSE, 0)

\* a call of calculate_seed_gateway
SelectGateway ==
    /\ selected' = CalculateSeedGateway(seed_gateways, outbound_ignore, sig_hash, now)
    /\ before' = selected
    /\ UNCHANGED <<seed_gateways, outbound_ignore, sig_hash, now>>

\* the node client puts a seed gateway on its ignore list
IgnoreGateway(g) ==
    /\ g \notin outbound_ignore
    /\ outbound_ignore' = outbound_ignore \cup {g}
    /\ UNCHANGED <<seed_gateways, sig_hash, now, selected, before>>

\* ------------------------------------------------------ role table (119-261)
Roles == {"Seed", "SeedGateway", "ServiceProvider", "User", "Miner"}

TypeLimitFlat(r, peer) == 1

\* type_limit of each class
TypeLimit(r, peer) ==
    CASE r = "Seed" ->
           IF peer = "Seed" THEN 100000 ELSE IF peer = "SeedGateway" THEN 1 ELSE 0
      [] r = "SeedGateway" ->
           IF peer = "Seed" THEN 1 ELSE IF peer = "ServiceProvider" THEN 1 ELSE 0
      [] r = "ServiceProvider" ->
           IF peer = "SeedGateway" THEN 1 ELSE IF peer = "User" THEN 1 ELSE 0
      [] r = "User" -> IF peer = "ServiceProvider" THEN 1 ELSE 0
      [] r = "Miner" -> IF peer = "ServiceProvider" THEN 1 ELSE 0

\* get_outbound_class of each class
OutboundClass(r) ==
    CASE r = "Seed" -> "Seed"
      [] r = "SeedGateway" -> "Seed"
      [] r = "ServiceProvider" -> "SeedGateway"
      [] r = "User" -> "ServiceProvider"
      [] r = "Miner" -> "ServiceProvider"

\* get_inbound_class of each class
InboundClass(r) ==
    CASE r = "Seed" -> "SeedGateway"
      [] r = "SeedGateway" -> "ServiceProvider"
      [] r = "ServiceProvider" -> "User"
      [] r = "User" -> "User"
      [] r = "Miner" -> "User"

\* the configured seeds and service providers, each named by its rid
SeedKey(i) == 200 + i
ProviderKey(i) == 300 + i
NoPeer == 0
SeedSets == {{SeedKey(i) : i \in 1..n} : n \in 0..MaxPeers}
ProviderSets == {{ProviderKey(i) : i \in 1..n} : n \in 0..MaxPeers}
Callers == 1..NumCallers

\* get_outbound_peers of each class: the keys of the dict it returns, or the
\* exception it raises
OutboundPeers ==
    CASE role = "Seed" -> [raised |-> FALSE, peers |-> seeds]
      [] role = "SeedGateway" ->
           \* self.config.seeds[self.seed]
           IF own_seed \in seeds THEN [raised |-> FALSE, peers |-> {own_seed}]
                                 ELSE [raised |-> TRUE, peers |-> {}]
      [] role = "ServiceProvider" ->
           LET o == CalculateSeedGateway(seed_gateways, outbound_ignore, sig_hash, now)
           IN IF o.kind = "gateway" THEN [raised |-> FALSE, peers |-> {o.gw}]
                                    ELSE [raised |-> TRUE, peers |-> {}]
      [] role \in {"User", "Miner"} -> [raised |-> FALSE, peers |-> service_providers]

\* --------------------------------- ensure_peers_connected / connect (90-100)
\* line 94
StreamCollection == outbound_streams \cup outbound_pending

BelowLimitUnchecked(limit, stream_collection) == limit # 0

\* line 98
BelowLimit(limit, stream_collection) ==
    limit # 0 /\ Cardinality(stream_collection) < limit

\* the key a peer has in the dict that get_outbound_peers returns (lines 128,
\* 153, 180, 227, 250 and the tables of 268-337): identity.username_signature,
\* a value that is no peer's rid
UsernameSignature(p) == 1000 + p

\* the key a peer has in the node client's stream tables: its rid (id_attribute)
StreamKey(p) == p

\* line 99, set(peers) - set(stream_collection): the peers the for loop walks
\* through are those whose dict key is no key of the stream tables
PeersToConnect(peers, stream_collection) ==
    {p \in peers : UsernameSignature(p) \notin {StreamKey(q) : q \in stream_collection}}

\* nodeClient.connect(peer) is entered: the peer is pending at once
Dial(c, p) ==
    /\ outbound_pending' = outbound_pending \cup {p}
    /\ cur' = [cur EXCEPT ![c] = p]
    /\ cpc' = [cpc EXCEPT ![c] = "connecting"]

Finish(c, how) ==
    /\ cpc' = [cpc EXCEPT ![c] = how]
    /\ cur' = [cur EXCEPT ![c] = NoPeer]
    /\ todo' = [todo EXCEPT ![c] = {}]

\* ensure_peers_connected from its call to the first await that suspends
EnsurePeersConnected(c) ==
    /\ cpc[c] \in {"idle", "done", "raised"}
    /\ UNCHANGED <<role, seeds, own_seed, service_providers, outbound_streams>>
    /\ LET got == OutboundPeers
           limit == TypeLimit(role, OutboundClass(role))
           walk == PeersToConnect(got.peers, StreamCollection)
       IN IF got.raised
            THEN /\ Finish(c, "raised")
                 /\ batch' = [batch EXCEPT ![c] = 0]
                 /\ UNCHANGED outbound_pending
            ELSE IF BelowLimit(limit, StreamCollection) /\ walk # {}
              THEN \E p \in walk :
                     /\ Dial(c, p)
                     /\ todo' = [todo EXCEPT ![c] = walk \ {p}]
                     /\ batch' = [batch EXCEPT ![c] = Cardinality(walk)]
              ELSE /\ Finish(c, "done")
                   /\ batch' = [batch EXCEPT ![c] = 0]
                   /\ UNCHANGED outbound_pending

\* nodeClient.connect returns: the stream is active, or the attempt failed; the
\* for loop of Peer.connect (line 99) goes on to its next peer
ConnectReturns(c, ok) ==
    /\ cpc[c] = "connecting"
    /\ UNCHANGED <<role, seeds, own_seed, service_providers, batch>>
    /\ outbound_streams' = IF ok THEN outbound_streams \cup {cur[c]} ELSE outbound_streams
    /\ IF todo[c] = {}
         THEN /\ outbound_pending' = outbound_pending \ {cur[c]}
              /\ Finish(c, "done")
         ELSE \E p \in todo[c] :
                /\ outbound_pending' = (outbound_pending \ {cur[c]}) \cup {p}
                /\ cur' = [cur EXCEPT ![c] = p]
                /\ todo' = [todo EXCEPT ![c] = todo[c] \ {p}]
                /\ UNCHANGED cpc

\* an outbound stream is closed
StreamClosed(p) ==
    /\ p \in outbound_streams
    /\ outbound_streams' = outbound_streams \ {p}
    /\ UNCHANGED <<role, seeds, own_seed, service_providers, outbound_pending,
                   cpc, todo, cur, batch>>

\* ------------------------------------------- handshake (start 75-95, on_peers 37-46)
Hosts == 1..MaxHosts

\* peers.on_new_outbound(ip, port, client): the remote's host is in peers.outbound
OnNewOutbound(ob, h) == ob \cup {h}

\* hosts written with a ':' in them (IPv6 literals)
ColonHosts == {h \in Hosts : h >= 3}

NoIp == 0

\* lines 19-20 of on_connect: what is left in self.ip for a session to host h.
\* "http://h:port" splits at '//' and the rest at ':'; with more than one ':'
\* the unpacking raises and self.ip is not set
OnConnectIp(h) == IF h \in ColonHosts THEN NoIp ELSE h

\* line 82: `self.peer.host not in self.config.peers.outbound`
NotInOutbound(s) == peer_host[s] \notin outbound

\* start is called and suspends in client.connect (line 79)
Start(s) ==
    /\ hs[s] = "idle"
    /\ hs' = [hs EXCEPT ![s] = "connecting"]
    /\ UNCHANGED <<peer_host, connected, got_peers, outbound>>

\* client.connect returns (line 80, then the sleep of line 81 begins) or raises
\* (lines 92-93)
ConnectDone(s, ok) ==
    /\ hs[s] = "connecting"
    /\ hs' = [hs EXCEPT ![s] = IF ok THEN "waiting" ELSE "closed"]
    /\ connected' = [connected EXCEPT ![s] = ok]
    /\ UNCHANGED <<peer_host, got_peers, outbound>>

\* ClientChatNamespace.on_peers (lines 37-39), called on the namespace that
\* start registered (line 78) whenever a peers event is handed to it: with no
\* self.ip line 38 raises, else line 39 records the remote's host
OnPeers(s) ==
    /\ hs[s] # "idle"
    /\ outbound' = IF OnConnectIp(peer_host[s]) = NoIp
                     THEN outbound
                     ELSE OnNewOutbound(outbound, OnConnectIp(peer_host[s]))
    /\ got_peers' = [got_peers EXCEPT ![s] = TRUE]
    /\ UNCHANGED <<peer_host, hs, connected>>

\* ClientChatNamespace.on_disconnect (line 29), called on the registered
\* namespace whenever the transport reports the connection gone
OnDisconnect(s) ==
    /\ hs[s] # "idle"
    /\ connected' = [connected EXCEPT ![s] = FALSE]
    /\ UNCHANGED <<peer_host, hs, got_peers, outbound>>

\* the sleep of WAIT_FOR_PEERS seconds is over: lines 82-88
WindowEnds(s) ==
    /\ hs[s] = "waiting"
    /\ hs' = [hs EXCEPT ![s] =
                IF NotInOutbound(s)
                  THEN \* line 86: suspended in client.disconnect()
                       "disconnecting"
                  ELSE \* line 88: while self.connected
                       IF connected[s] THEN "listening" ELSE "closed"]
    /\ UNCHANGED <<peer_host, connected, got_peers, outbound>>

\* client.disconnect() returns (line 87) or raises (lines 92-93): start ends
DisconnectDone(s) ==
    /\ hs[s] = "disconnecting"
    /\ hs' = [hs EXCEPT ![s] = "closed"]
    /\ UNCHANGED <<peer_host, connected, got_peers, outbound>>

\* the sleep of line 90 is over and the loop test of line 88 fails
LoopEnds(s) ==
    /\ hs[s] = "listening"
    /\ ~connected[s]
    /\ hs' = [hs EXCEPT ![s] = "closed"]
    /\ UNCHANGED <<peer_host, connected, got_peers, outbound>>

\* ------------------------------------------ gap filling against remotes that answer
\* the remote of session s answers get_blocks{start_index: a}: the consecutive
\* blocks it has from a on
Answer(s, a) == Run(a, IF height[s] >= a THEN height[s] - a + 1 ELSE 0)

\* what import_block returns for a block that passes consensus
ImportOf(idx) == IF CanImport(idx) THEN "true" ELSE "false"

\* the remote answers get_latest_block (requested once, on_peers line 46):
\* on_latest_block runs on its latest block
GfAnnounce(s) ==
    /\ ~announced[s]
    /\ announced' = [announced EXCEPT ![s] = TRUE]
    /\ OnLatestBlock(s, height[s])
    /\ UNCHANGED <<height, asked>>

\* the remote's answer to the outstanding get_blocks arrives: on_blocks
GfDeliver(s) ==
    /\ asked[s] # 0
    /\ pc[s] = "idle"
    /\ asked' = [asked EXCEPT ![s] = 0]
    /\ IF BatchAccepted(Answer(s, asked[s]))
         THEN OnBlocks(s, Answer(s, asked[s]))
         ELSE OnBlocksDiscarded(s)
    /\ UNCHANGED <<height, announced>>

\* insert_consensus_block accepts the block
GfInsert(s) ==
    /\ \/ LbInsert(s, "ok")
       \/ BInsert(s, "ok")
    /\ UNCHANGED fillVars

\* import_block imports the block if it extends the head
GfImport(s) ==
    /\ \/ LbImport(s, ImportOf(Block(s)))
       \/ BImport(s, ImportOf(Block(s)))
    /\ UNCHANGED fillVars

\* peers.on_block_insert returns
GfGossip(s) ==
    /\ \/ LbGossip(s, TRUE)
       \/ BGossip(s, TRUE)
    /\ UNCHANGED fillVars

\* the get_blocks of line 111 or of lines 148-149 goes out
GfEmit(s) ==
    /\ asked' = [asked EXCEPT ![s] = my_index[s] + 1]
    /\ \/ LbEmit(s, "sent")
       \/ BEmit(s, "sent")
    /\ UNCHANGED <<height, announced>>

\* ------------------------------------------------------------ specification
SyncInit ==
    /\ head = 0
    /\ syncing = FALSE
    /\ pc = [s \in Sessions |-> "idle"]
    /\ data = [s \in Sessions |-> <<>>]
    /\ my_index = [s \in Sessions |-> 0]
    /\ inserted = [s \in Sessions |-> FALSE]
    /\ pos = [s \in Sessions |-> 1]
    /\ failed = [s \in Sessions |-> 0]
    /\ step = NoStep

\* a node with no gateway configured and no selection made
GatewayQuiet ==
    /\ seed_gateways = <<>>
    /\ outbound_ignore = {}
    /\ sig_hash = 0
    /\ now = epoch
    /\ selected = NoCall
    /\ before = NoCall

\* nobody is in ensure_peers_connected
CallersIdle ==
    /\ cpc = [c \in Callers |-> "idle"]
    /\ todo = [c \in Callers |-> {}]
    /\ cur = [c \in Callers |-> NoPeer]
    /\ batch = [c \in Callers |-> 0]

\* a node with no peer configured and no connection
ConnQuiet ==
    /\ role = "User"
    /\ seeds = {}
    /\ own_seed = NoPeer
    /\ service_providers = {}
    /\ outbound_streams = {}
    /\ outbound_pending = {}
    /\ CallersIdle

\* no session has been started
ShakeQuiet ==
    /\ peer_host = [s \in Sessions |-> 1]
    /\ hs = [s \in Sessions |-> "idle"]
    /\ connected = [s \in Sessions |-> FALSE]
    /\ got_peers = [s \in Sessions |-> FALSE]
    /\ outbound = {}

\* no remote has announced anything, nothing is asked for
FillQuiet ==
    /\ height = [s \in Sessions |-> 0]
    /\ announced = [s \in Sessions |-> FALSE]
    /\ asked = [s \in Sessions |-> 0]

\* the sync sessions of a running node
Init == SyncInit /\ GatewayQuiet /\ ConnQuiet /\ ShakeQuiet /\ FillQuiet

Next ==
    \/ /\ UNCHANGED <<gatewayVars, connVars, shakeVars, fillVars>>
       /\ \E s \in Sessions, idx \in Indexes : OnLatestBlock(s, idx)
    \/ /\ UNCHANGED <<gatewayVars, connVars, shakeVars, fillVars>>
       /\ \E s \in Sessions, e \in EmitAnswers : LbEmit(s, e)
    \/ /\ UNCHANGED <<gatewayVars, connVars, shakeVars, fillVars>>
       /\ \E s \in Sessions, r \in InsertAnswers : LbInsert(s, r)
    \/ /\ UNCHANGED <<gatewayVars, connVars, shakeVars, fillVars>>
       /\ \E s \in Sessions, r \in ImportAnswers : LbImport(s, r)
    \/ /\ UNCHANGED <<gatewayVars, connVars, shakeVars, fillVars>>
       /\ \E s \in Sessions, ok \in BOOLEAN : LbGossip(s, ok)
    \/ /\ UNCHANGED <<gatewayVars, connVars, shakeVars, fillVars>>
       /\ \E s \in Sessions, d \in Batches : OnBlocks(s, d)
    \/ /\ UNCHANGED <<gatewayVars, connVars, shakeVars, fillVars>>
       /\ \E s \in Sessions : OnBlocksDiscarded(s)
    \/ /\ UNCHANGED <<gatewayVars, connVars, shakeVars, fillVars>>
       /\ \E s \in Sessions, r \in InsertAnswers : BInsert(s, r)
    \/ /\ UNCHANGED <<gatewayVars, connVars, shakeVars, fillVars>>
       /\ \E s \in Sessions, r \in ImportAnswers : BImport(s, r)
    \/ /\ UNCHANGED <<gatewayVars, connVars, shakeVars, fillVars>>
       /\ \E s \in Sessions, ok \in BOOLEAN : BGossip(s, ok)
    \/ /\ UNCHANGED <<gatewayVars, connVars, shakeVars, fillVars>>
       /\ \E s \in Sessions, e \in EmitAnswers : BEmit(s, e)

Spec == Init /\ [][Next]_vars

\* gateway selection on its own: the inputs are drawn at the start
GatewayInit ==
    /\ seed_gateways \in GatewayLists
    /\ outbound_ignore = {}
    /\ sig_hash \in Hashes
    /\ now \in Times
    /\ selected = NoCall
    /\ before = NoCall

InitGateway == SyncInit /\ GatewayInit /\ ConnQuiet /\ ShakeQuiet /\ FillQuiet

NextGateway ==
    \/ /\ UNCHANGED <<syncVars, connVars, shakeVars, fillVars>>
       /\ SelectGateway
    \/ /\ UNCHANGED <<syncVars, connVars, shakeVars, fillVars>>
       /\ \E g \in {seed_gateways[i] : i \in 1..Len(seed_gateways)} : IgnoreGateway(g)

SpecGateway == InitGateway /\ [][NextGateway]_vars

\* the peers a node of role r dials: what its get_outbound_peers can return
Dialable(r) ==
    CASE r \in {"Seed", "SeedGateway"} -> seeds
      [] r = "ServiceProvider" -> {seed_gateways[i] : i \in 1..Len(seed_gateways)}
      [] r \in {"User", "Miner"} -> service_providers

\* the connection manager of one node, one caller of ensure_peers_connected:
\* any role, any configured peers, any stream tables within the role's limit
InitConnect ==
    /\ SyncInit
    /\ role \in Roles
    /\ IF role = "ServiceProvider" THEN GatewayInit ELSE GatewayQuiet
    /\ seeds \in (IF role \in {"Seed", "SeedGateway"} THEN SeedSets ELSE {{}})
    /\ own_seed \in (IF role = "SeedGateway" THEN seeds \cup {NoPeer} ELSE {NoPeer})
    /\ service_providers \in (IF role \in {"User", "Miner"} THEN ProviderSets ELSE {{}})
    /\ outbound_streams \in SUBSET Dialable(role)
    /\ outbound_pending \in SUBSET (Dialable(role) \ outbound_streams)
    /\ Cardinality(outbound_streams \cup outbound_pending)
         <= TypeLimit(role, OutboundClass(role))
    /\ CallersIdle
    /\ ShakeQuiet
    /\ FillQuiet

NextConnect ==
    \/ /\ UNCHANGED <<syncVars, gatewayVars, shakeVars, fillVars>>
       /\ EnsurePeersConnected(1)
    \/ /\ UNCHANGED <<syncVars, gatewayVars, shakeVars, fillVars>>
       /\ \E ok \in BOOLEAN : ConnectReturns(1, ok)
    \/ /\ UNCHANGED <<syncVars, gatewayVars, shakeVars, fillVars>>
       /\ \E p \in outbound_streams : StreamClosed(p)
    \/ /\ UNCHANGED <<syncVars, connVars, shakeVars, fillVars>>
       /\ \E g \in {seed_gateways[i] : i \in 1..Len(seed_gateways)} : IgnoreGateway(g)

SpecConnect == InitConnect /\ [][NextConnect]_vars

\* the connection manager with several callers of ensure_peers_connected, each
\* suspended in nodeClient.connect while the others run
NextConcurrent ==
    \/ /\ UNCHANGED <<syncVars, gatewayVars, shakeVars, fillVars>>
       /\ \E c \in Callers : EnsurePeersConnected(c)
    \/ /\ UNCHANGED <<syncVars, gatewayVars, shakeVars, fillVars>>
       /\ \E c \in Callers, ok \in BOOLEAN : ConnectReturns(c, ok)
    \/ /\ UNCHANGED <<syncVars, gatewayVars, shakeVars, fillVars>>
       /\ \E p \in outbound_streams : StreamClosed(p)
    \/ /\ UNCHANGED <<syncVars, connVars, shakeVars, fillVars>>
       /\ \E g \in {seed_gateways[i] : i \in 1..Len(seed_gateways)} : IgnoreGateway(g)

SpecConcurrent == InitConnect /\ [][NextConcurrent]_vars

\* the outbound sessions of a node from their start on; each to a peer on some host
InitHandshake ==
    /\ SyncInit /\ GatewayQuiet /\ ConnQuiet /\ FillQuiet
    /\ peer_host \in [Sessions -> Hosts]
    /\ hs = [s \in Sessions |-> "idle"]
    /\ connected = [s \in Sessions |-> FALSE]
    /\ got_peers = [s \in Sessions |-> FALSE]
    /\ outbound = {}

NextHandshake ==
    \/ /\ UNCHANGED <<syncVars, gatewayVars, connVars, fillVars>>
       /\ \E s \in Sessions : Start(s)
    \/ /\ UNCHANGED <<syncVars, gatewayVars, connVars, fillVars>>
       /\ \E s \in Sessions, ok \in BOOLEAN : ConnectDone(s, ok)
    \/ /\ UNCHANGED <<syncVars, gatewayVars, connVars, fillVars>>
       /\ \E s \in Sessions : OnPeers(s)
    \/ /\ UNCHANGED <<syncVars, gatewayVars, connVars, fillVars>>
       /\ \E s \in Sessions : OnDisconnect(s)
    \/ /\ UNCHANGED <<syncVars, gatewayVars, connVars, fillVars>>
       /\ \E s \in Sessions : WindowEnds(s)
    \/ /\ UNCHANGED <<syncVars, gatewayVars, connVars, fillVars>>
       /\ \E s \in Sessions : DisconnectDone(s)
    \/ /\ UNCHANGED <<syncVars, gatewayVars, connVars, fillVars>>
       /\ \E s \in Sessions : LoopEnds(s)

SpecHandshake == InitHandshake /\ [][NextHandshake]_vars

\* the sync sessions with remotes that answer every request and blocks that all
\* pass consensus; the remote of each session has a chain of some height
InitGapFill ==
    /\ SyncInit /\ GatewayQuiet /\ ConnQuiet /\ ShakeQuiet
    /\ height \in [Sessions -> Indexes]
    /\ announced = [s \in Sessions |-> FALSE]
    /\ asked = [s \in Sessions |-> 0]

NextGapFill ==
    \/ /\ UNCHANGED <<gatewayVars, connVars, shakeVars>>
       /\ \E s \in Sessions : GfAnnounce(s)
    \/ /\ UNCHANGED <<gatewayVars, connVars, shakeVars>>
       /\ \E s \in Sessions : GfDeliver(s)
    \/ /\ UNCHANGED <<gatewayVars, connVars, shakeVars>>
       /\ \E s \in Sessions : GfInsert(s)
    \/ /\ UNCHANGED <<gatewayVars, connVars, shakeVars>>
       /\ \E s \in Sessions : GfImport(s)
    \/ /\ UNCHANGED <<gatewayVars, connVars, shakeVars>>
       /\ \E s \in Sessions : GfGossip(s)
    \/ /\ UNCHANGED <<gatewayVars, connVars, shakeVars>>
       /\ \E s \in Sessions : GfEmit(s)

\* every delivered event is handled and every awaited call returns
GapFillFairness ==
    \A s \in Sessions :
        /\ WF_vars(GfDeliver(s) /\ UNCHANGED <<gatewayVars, connVars, shakeVars>>)
        /\ WF_vars(GfInsert(s) /\ UNCHANGED <<gatewayVars, connVars, shakeVars>>)
        /\ WF_vars(GfImport(s) /\ UNCHANGED <<gatewayVars, connVars, shakeVars>>)
        /\ WF_vars(GfGossip(s) /\ UNCHANGED <<gatewayVars, connVars, shakeVars>>)
        /\ WF_vars(GfEmit(s) /\ UNCHANGED <<gatewayVars, connVars, shakeVars>>)

SpecGapFill == InitGapFill /\ [][NextGapFill]_vars /\ GapFillFairness

\* ------------------------------------------------------------ sync sessions
InBatch(s) == pc[s] \in BatchPCs
InConsensus(s) == pc[s] \in ConsensusPCs

\* C1: at most one session is between setting peers.syncing and clearing it,
\* and a delivery is taken up only while no other one is being processed, its
\* first block being compared with the head as it is then.
C1_OneBatchAtATime ==
    [][/\ Cardinality({s \in Sessions : pc'[s] \in BatchPCs}) <= 1
       /\ \A s \in Sessions :
            (~InBatch(s) /\ pc'[s] \in BatchPCs)
            => /\ ~syncing
               /\ \A t \in Sessions : ~InBatch(t)
               /\ my_index'[s] = head
               /\ data'[s][1] = head + 1]_vars

\* C1 witness: a batch arrives while another session processes one, and is dropped
C1_Witness ==
    \E s \in Sessions : InBatch(s) /\ syncing /\ step.how = "discarded"

\* C2: peers.syncing is true only while some session is inside the batch
\* processing of on_blocks: every way out of it has cleared the flag.
C2_SyncingReleased ==
    syncing => \E s \in Sessions : InBatch(s)

\* C2 witness: a batch run has just ended through its except clause
C2_Witness ==
    step.how = "batch_raised" /\ ~syncing /\ \A s \in Sessions : ~InBatch(s)

\* C3: no two sessions are inside the consensus insert+import path at once.
C3_OneSyncApplication ==
    Cardinality({s \in Sessions : InConsensus(s)}) <= 1

\* C9: once block k of a batch has been refused by consensus (by
\* insert_consensus_block or by import_block), the batch imports nothing more,
\* its cursor stays at k-1, and the next get_blocks it sends starts at k.
C9_PartialBatchImport ==
    [][\A s \in Sessions :
         (InBatch(s) /\ failed[s] # 0)
         => /\ my_index[s] = failed[s] - 1
            /\ pc'[s] \in BatchPCs => my_index'[s] = my_index[s]
            /\ (pc[s] = "b_emit" /\ step'.how = "batch_done")
               => step'.sent = {GetBlocksRequest(s, failed[s] - 1)}]_vars

\* C10: a latest_block for head+1 delivered while syncing is false starts an
\* import and sends no get_blocks; when the import succeeds the head is that
\* block and on_block_insert gossips it; when it fails the handler ends with
\* the head unchanged and nothing sent.
C10_DirectImport ==
    [][\A s \in Sessions :
         /\ (~syncing /\ OnLatestBlock(s, head + 1))
            => pc'[s] = "lb_insert" /\ data'[s] = <<head + 1>> /\ step'.sent = {}
         /\ (pc[s] \in {"lb_insert", "lb_import", "lb_gossip"} /\ pc'[s] # pc[s])
            => /\ pc'[s] # "lb_emit"
               /\ \A m \in step'.sent : m.type # "get_blocks"
         /\ (pc[s] = "lb_import" /\ pc'[s] = "lb_gossip")
            => head' = head + 1 /\ head' = data[s][1]
         /\ (pc[s] = "lb_import" /\ pc'[s] = "idle")
            => head' = head /\ step'.sent = {}
         /\ (pc[s] = "lb_gossip" /\ pc'[s] = "idle" /\ step'.how = "imported")
            => step'.sent = {Gossip(s, data[s][1])}]_vars

\* C10 witness: a direct import succeeded and its block has been gossiped
C10_Witness ==
    \E s \in Sessions :
        /\ step = [how |-> "imported", sent |-> {Gossip(s, head)}]
        /\ head > 0
        /\ pc[s] = "idle"

\* C15: the block a batch gossips is the last block it inserted, the one its
\* cursor stands at, also when the loop stopped at a failed or an
\* out-of-sequence block.
C15_GossipLastInserted ==
    [][\A s \in Sessions :
         (pc[s] = "b_gossip" /\ pc'[s] = "b_emit")
         => step'.sent = {Gossip(s, my_index[s])}]_vars

\* C16: a latest_block with index above head+1, delivered while syncing is
\* false, starts no import and goes straight to the emit of one get_blocks for
\* head+1 .. head+1+MAX_BLOCKS_PER_MESSAGE (the head as it was on delivery) to
\* the announcing peer; the handler ends with that request sent and nothing
\* else, or with nothing sent when the transport refuses it; it never moves
\* the head.
C16_GapFillRequest ==
    [][\A s \in Sessions :
         /\ (~syncing /\ pc[s] = "idle" /\ pc' = [pc EXCEPT ![s] = pc'[s]])
            => \A idx \in Indexes :
                 (idx > head + 1 /\ OnLatestBlock(s, idx))
                 => /\ pc'[s] = "lb_emit"
                    /\ my_index'[s] = head
                    /\ head' = head
                    /\ step'.sent = {}
         /\ (pc[s] = "lb_emit" /\ pc'[s] = "lb_emit") => my_index'[s] = my_index[s]
         /\ (pc[s] = "lb_emit" /\ pc'[s] # "lb_emit")
            => /\ pc'[s] = "idle"
               /\ head' = head
               /\ step'.sent =
                    IF step'.how = "requested"
                      THEN {[type |-> "get_blocks", to |-> s,
                             start_index |-> my_index[s] + 1,
                             end_index |-> my_index[s] + 1 + MAX_BLOCKS_PER_MESSAGE]}
                      ELSE {}]_vars

\* C16 witness: head 1, a peer announced block 3 and was asked for 2 .. 202
C16_Witness ==
    \E s \in Sessions :
        /\ head = 1
        /\ step = [how |-> "requested",
                   sent |-> {[type |-> "get_blocks", to |-> s,
                              start_index |-> 2, end_index |-> 202]}]

\* C17: a latest_block delivered while syncing is true, or with an index not
\* above the head, starts no insert or import, sends nothing, and leaves the
\* head and the syncing flag as they are.
C17_AnnouncementIgnored ==
    [][\A s \in Sessions :
         (pc[s] = "idle" /\ pc' = [pc EXCEPT ![s] = pc'[s]])
         => \A idx \in Indexes :
              ((syncing \/ idx <= head) /\ OnLatestBlock(s, idx))
              => /\ pc'[s] = "idle"
                 /\ step'.sent = {}
                 /\ head' = head
                 /\ syncing' = syncing]_vars

\* C17 witness: an announcement came in while another session held the flag
C17_Witness ==
    \E s, t \in Sessions :
        /\ s # t /\ InBatch(t) /\ syncing
        /\ pc[s] = "idle" /\ step.how = "ignored"

\* C18: a batch is taken up only if it is not empty, starts at head+1 and
\* syncing is false; a batch that is not taken up changes neither the flag nor
\* the head and sends nothing, and a batch that ends with nothing inserted
\* sends nothing either.
C18_BatchDiscarded ==
    [][\A s \in Sessions :
         /\ (pc[s] = "idle" /\ pc'[s] \in BatchPCs)
            => /\ pc'[s] = "b_insert" /\ Len(data'[s]) # 0
               /\ data'[s][1] = head + 1 /\ ~syncing
         /\ (pc' = pc /\ OnBlocksDiscarded(s))
            => /\ syncing' = syncing /\ head' = head
               /\ pc'[s] = "idle" /\ step'.sent = {}
         /\ (InBatch(s) /\ ~inserted[s] /\ pc'[s] = "idle")
            => step'.sent = {}]_vars

\* C18 witness: with the head at 1 and no sync running a batch was dropped
C18_Witness ==
    /\ head = 1 /\ ~syncing
    /\ step = [how |-> "discarded", sent |-> {}]

\* C20: the cursor of a session inside a batch is the chain head.
C20_CursorIsHead ==
    \A s \in Sessions : InBatch(s) => my_index[s] = head

\* C19: once a session has asked its remote for the blocks it misses, the head
\* eventually reaches the remote's announced index.
C19_GapFillProgress ==
    \A s \in Sessions : (asked[s] # 0) ~> (head >= height[s])

\* ------------------------------------------------------- connection manager
\* C4: when a lone caller of ensure_peers_connected is through, active and
\* pending streams together are within the role's limit for its outbound class.
C4_WithinLimitAfterEnsure ==
    cpc[1] = "done"
    => Cardinality(outbound_streams \cup outbound_pending)
         <= TypeLimit(role, OutboundClass(role))

\* the role's limit for its outbound class, and the streams counted against it
OutboundLimit == TypeLimit(role, OutboundClass(role))
KnownStreams == Cardinality(outbound_streams \cup outbound_pending)

\* C12: with any number of callers of ensure_peers_connected interleaved at
\* their connects, active and pending streams together stay below the limit
\* plus the size of the batch of any one caller that set out to dial: the
\* excess over the limit is less than one batch, however many callers there are.
C12_BoundedOvershoot ==
    \A c \in Callers :
        batch[c] > 0 => KnownStreams <= OutboundLimit - 1 + batch[c]

\* C12 witness: a caller is inside its batch of two with the limit of one
\* exceeded, and another caller has come and gone without dialing
C12_Witness ==
    \E c, d \in Callers :
        /\ c # d
        /\ cpc[c] = "connecting" /\ batch[c] = 2
        /\ cpc[d] = "done" /\ batch[d] = 0
        /\ KnownStreams > OutboundLimit

\* C13: a call of ensure_peers_connected made while active and pending streams
\* are at or above the limit dials nobody, leaves both tables as they are and
\* returns to its caller without an error.
C13_AtLimitNoAttempt ==
    [][(KnownStreams >= OutboundLimit /\ EnsurePeersConnected(1))
       => /\ cpc'[1] = "done"
          /\ outbound_streams' = outbound_streams
          /\ outbound_pending' = outbound_pending]_vars

\* C14: the node's role has the outbound class, the inbound class and the
\* limits of the layered tree; its limit for a class that is neither of the
\* two is 0, and every role but Seed has exactly one upstream.
C14_RoleTable ==
    /\ role = "Seed"
       => /\ OutboundClass(role) = "Seed" /\ TypeLimit(role, "Seed") = 100000
          /\ InboundClass(role) = "SeedGateway" /\ TypeLimit(role, "SeedGateway") = 1
    /\ role = "SeedGateway"
       => /\ OutboundClass(role) = "Seed" /\ TypeLimit(role, "Seed") = 1
          /\ InboundClass(role) = "ServiceProvider"
          /\ TypeLimit(role, "ServiceProvider") = 1
    /\ role = "ServiceProvider"
       => /\ OutboundClass(role) = "SeedGateway" /\ TypeLimit(role, "SeedGateway") = 1
          /\ InboundClass(role) = "User" /\ TypeLimit(role, "User") = 1
    /\ role \in {"User", "Miner"}
       => /\ OutboundClass(role) = "ServiceProvider"
          /\ TypeLimit(role, "ServiceProvider") = 1
          /\ InboundClass(role) = "User"
    /\ \A peer \in Roles \ {OutboundClass(role), InboundClass(role)} :
          TypeLimit(role, peer) = 0
    /\ role # "Seed" => OutboundLimit = 1

\* C14 witness: a Miner, whose limit of one let it dial a service provider
C14_Witness ==
    /\ role = "Miner"
    /\ cpc[1] = "connecting"
    /\ outbound_streams = {} /\ Cardinality(outbound_pending) = 1

\* ------------------------------------------------------- gateway selection
Gateways == {seed_gateways[i] : i \in 1..Len(seed_gateways)}
Called(o) == o.kind # "none"
Failure(o) == o.kind \notin {"none", "gateway"}
\* the index (h * seed_time) mod N the probe starts at, for N > 0
StartIndex == (sig_hash * (((now - epoch) \div ttl) + 1)) % Len(seed_gateways)
\* the first gateway not in ign, in cyclic insertion order from StartIndex
FirstFree(ign) ==
    LET n == Len(seed_gateways)
        at(k) == seed_gateways[((StartIndex + k) % n) + 1]
        k0 == CHOOSE k \in 0..(n - 1) :
                  /\ at(k) \notin ign
                  /\ \A j \in 0..(k - 1) : at(j) \in ign
    IN at(k0)

\* C5: when a selection returned gateway G and the next selection runs with G
\* added to the ignore set and nothing else changed, it returns a gateway other
\* than G, or it fails and every gateway is ignored.
C5_ReselectAfterIgnore ==
    (/\ before.kind = "gateway"
     /\ Called(selected)
     /\ selected.ign = before.ign \cup {before.gw})
    => \/ selected.kind = "gateway" /\ selected.gw # before.gw
       \/ Failure(selected) /\ Gateways \subseteq selected.ign

\* C6: whenever some gateway is not ignored, selection returns the first
\* non-ignored gateway in cyclic insertion order from (h * seed_time) mod N,
\* also when that gateway lies before the start index.
C6_ProbesForwardModuloN ==
    (Called(selected) /\ ~(Gateways \subseteq selected.ign))
    => selected.kind = "gateway" /\ selected.gw = FirstFree(selected.ign)

\* C7: selection looks at no more than N gateways, and with N = 0 or every
\* gateway ignored its outcome is the NoGatewayAvailable failure and nothing else.
C7_ExhaustedIsNoGatewayAvailable ==
    Called(selected)
    => /\ selected.probes <= Len(seed_gateways)
       /\ Gateways \subseteq selected.ign => selected.kind = "NoGatewayAvailable"

\* C8: with no gateway ignored the selection is the gateway at position
\* (h * seed_time) mod N of the insertion order, and two calls on the same
\* inputs return the same outcome.
C8_SelectionDeterministic ==
    /\ (Called(selected) /\ selected.ign = {} /\ Len(seed_gateways) > 0)
       => selected.kind = "gateway" /\ selected.gw = seed_gateways[StartIndex + 1]
    /\ (Called(before) /\ Called(selected) /\ before.ign = selected.ign)
       => before = selected

\* C8 witness: the spec's example, N = 3, h = 7, seed_time = 5, called twice
C8_Witness ==
    /\ Len(seed_gateways) = 3 /\ sig_hash = 7 /\ SeedTime(now) = 5
    /\ selected.ign = {} /\ before = selected
    /\ selected.kind = "gateway" /\ selected.gw = Rid(2)

\* ---------------------------------------------------------------- handshake
\* C11: a session is in its listening loop only when a peers response came in
\* on that very session; one that got none is closed when its wait is over,
\* whatever other sessions, to the same host or not, have received.
C11_HandshakeTimeout ==
    \A s \in Sessions : hs[s] = "listening" => got_peers[s]

\* what calculate_seed_gateway returns on the node's present inputs
SelectedNow == CalculateSeedGateway(seed_gateways, outbound_ignore, sig_hash, now)

\* C21: a gateway that selection returns is not in the ignore set it was run
\* with, and the gateway a ServiceProvider's ensure_peers_connected sets out
\* to dial is not ignored at that moment.
C21_NeverIgnoredGateway ==
    [][/\ SelectedNow.kind = "gateway" => SelectedNow.gw \notin outbound_ignore
       /\ SelectedNow'.kind = "gateway" => SelectedNow'.gw \notin outbound_ignore'
       /\ (role = "ServiceProvider" /\ cpc[1] # "connecting"
           /\ cpc'[1] = "connecting")
          => cur'[1] \in Gateways \ outbound_ignore]_vars

\* C21 witness: a ServiceProvider whose start gateway is ignored is dialing
\* another gateway, one that is not ignored
C21_Witness ==
    /\ role = "ServiceProvider" /\ cpc[1] = "connecting"
    /\ seed_gateways[StartIndex + 1] \in outbound_ignore
    /\ cur[1] \in Gateways \ outbound_ignore
====
